---- MODULE Spec2Model ----
(***************************************************************************)
(* fastq-fix-i5: rewriting of FASTQ headers by reverse-complementing the   *)
(* i5 barcode (src/src/main.rs).  Bytes are one-character strings.         *)
(*                                                                         *)
(* Three harnesses share the variables:                                    *)
(*   SpecRewrite   rewrite_header_i5 called twice on an arbitrary buffer,  *)
(*                 as tests::rewrite_header_i5_valid does;                 *)
(*   SpecReadLine  successive read_line calls on a chunked stream;         *)
(*   Spec, SpecIO  main's loop over stdin/stdout, without and with         *)
(*                 failing stream operations.                              *)
(***************************************************************************)
EXTENDS Integers, Sequences, FiniteSets

VARIABLES
    input,    \* bytes of the stream the underlying reader has not delivered yet
    rbuf,     \* io::BufReader: bytes filled and not yet consumed
    line,     \* the line buffer (Vec<u8>) / the header buffer under test
    total,    \* read_line: bytes read so far, and its return value
    output,   \* bytes accepted by output.write_all, in order
    flushed,  \* output.flush() has returned Ok
    pc,       \* main: AwaitingHeader, ReadingPayload, Flush, Done, Failed
    k,        \* main: which payload line (1..3) is being read
    rl,       \* read_line: idle, loop (inside the loop), ret (returned Ok)
    err,      \* the error returned, or "none" / "ok"
    calls,    \* rewrite harness: calls of rewrite_header_i5 made
    prev,     \* history: the buffer / the stream as the current call found it
    input0,   \* history: the whole input of the first run / the header under test
    nread,    \* history: lines read by this run (read_line calls returning > 0)
    pass      \* 1: first run; 2: the run fed with the first run's output

vars == <<input, rbuf, line, total, output, flushed, pc, k, rl, err,
          calls, prev, input0, nread, pass>>

---------------------------------------------------------------------------
\* Bounds of the model: the longest header buffer, the longest stream of
\* the read_line harness, the largest chunk one read of the underlying
\* stream delivers, and the most complete lines of main's input.
MaxLen == 6
MaxStream == 6
MaxChunk == 2
MaxLines == 9

\* The bytes buffers are drawn from: the four structural bytes, and one
\* pair of DNA symbols at a time so that all ten are covered.
Delims == {"@", "\n", ":", "+"}
Palettes == {{"A", "c"}, {"T", "g"}, {"C", "n"}, {"G", "a"}, {"N", "t"}}

SeqsUpTo(S, n) == UNION {[1..m -> S] : m \in 0..n}

\* header[from..to] with Rust's 0-based, end-exclusive indices.
Slice(s, from, to) == SubSeq(s, from + 1, to)

None == -1

---------------------------------------------------------------------------
\* Complement / transform layer.

\* Mutant of complement_base: the lowercase arms lose the case.
complement_base_upper(b) ==
    CASE b = "A" -> "T"
      [] b = "C" -> "G"
      [] b = "G" -> "C"
      [] b = "T" -> "A"
      [] b = "N" -> "N"
      [] b = "a" -> "T"
      [] b = "c" -> "G"
      [] b = "g" -> "C"
      [] b = "t" -> "A"
      [] b = "n" -> "N"
      [] OTHER -> b

complement_base(b) ==
    CASE b = "A" -> "T"
      [] b = "C" -> "G"
      [] b = "G" -> "C"
      [] b = "T" -> "A"
      [] b = "N" -> "N"
      [] b = "a" -> "t"
      [] b = "c" -> "g"
      [] b = "g" -> "c"
      [] b = "t" -> "a"
      [] b = "n" -> "n"
      [] OTHER -> b

\* The while loop of reverse_complement_in_place, i and j 0-based.
RECURSIVE rc_loop(_, _, _)
rc_loop(buf, i, j) ==
    IF i < j
    THEN LET j1 == j - 1
             a == complement_base(buf[i + 1])
             b == complement_base(buf[j1 + 1])
         IN rc_loop([buf EXCEPT ![i + 1] = b, ![j1 + 1] = a], i + 1, j1)
    ELSE buf

reverse_complement_in_place(buf) == rc_loop(buf, 0, Len(buf))

---------------------------------------------------------------------------
\* memchr crate: 0-based index of the first / last occurrence, or None.

memchr(b, s) ==
    IF \E i \in 1..Len(s) : s[i] = b
    THEN (CHOOSE i \in 1..Len(s) : s[i] = b /\ \A j \in 1..(i - 1) : s[j] # b) - 1
    ELSE None

\* Mutant of memrchr: the search runs from the front.
memrchr_from_front(b, s) ==
    IF \E i \in 1..Len(s) : s[i] = b
    THEN (CHOOSE i \in 1..Len(s) : s[i] = b /\ \A j \in 1..(i - 1) : s[j] # b) - 1
    ELSE None

memrchr(b, s) ==
    IF \E i \in 1..Len(s) : s[i] = b
    THEN (CHOOSE i \in 1..Len(s) : s[i] = b /\ \A j \in (i + 1)..Len(s) : s[j] # b) - 1
    ELSE None

---------------------------------------------------------------------------
\* Header field locator and rewriter.  The result is the io::Result (err)
\* and the buffer as the call leaves it.

Failure(kind, header) == [err |-> kind, header |-> header]

\* Mutant of rewrite_header_i5: the ':' is searched before the trailing
\* newline is checked.
rewrite_header_i5_colon_first(header) ==
    IF Len(header) = 0 \/ header[1] # "@"
    THEN Failure("missing_marker", header)
    ELSE LET colon_index == memrchr(":", header) IN
    IF colon_index = None
    THEN Failure("missing_colon", header)
    ELSE IF header[Len(header)] # "\n"
    THEN Failure("missing_newline", header)
    ELSE LET after_colon_index == colon_index + 1
             relative_plus_index ==
                 memchr("+", Slice(header, after_colon_index, Len(header)))
         IN
    IF relative_plus_index = None
    THEN Failure("missing_plus", header)
    ELSE LET after_plus_index == after_colon_index + relative_plus_index + 1
             stop_h5_index == Len(header) - 1
             i5 == Slice(header, after_plus_index, stop_h5_index)
         IN [err |-> "ok",
             header |-> Slice(header, 0, after_plus_index)
                        \o reverse_complement_in_place(i5)
                        \o Slice(header, stop_h5_index, Len(header))]

\* Mutant of rewrite_header_i5: everything after the last ':' is
\* transformed before the '+' is looked for.
rewrite_header_i5_eager(header) ==
    IF Len(header) = 0 \/ header[1] # "@"
    THEN Failure("missing_marker", header)
    ELSE IF header[Len(header)] # "\n"
    THEN Failure("missing_newline", header)
    ELSE LET colon_index == memrchr(":", header) IN
    IF colon_index = None
    THEN Failure("missing_colon", header)
    ELSE LET after_colon_index == colon_index + 1
             stop_h5_index == Len(header) - 1
             relative_plus_index ==
                 memchr("+", Slice(header, after_colon_index, Len(header)))
         IN
    IF relative_plus_index = None
    THEN Failure("missing_plus",
                 Slice(header, 0, after_colon_index)
                 \o reverse_complement_in_place(
                        Slice(header, after_colon_index, stop_h5_index))
                 \o Slice(header, stop_h5_index, Len(header)))
    ELSE LET after_plus_index == after_colon_index + relative_plus_index + 1
             i5 == Slice(header, after_plus_index, stop_h5_index)
         IN [err |-> "ok",
             header |-> Slice(header, 0, after_plus_index)
                        \o reverse_complement_in_place(i5)
                        \o Slice(header, stop_h5_index, Len(header))]

rewrite_header_i5(header) ==
    IF Len(header) = 0 \/ header[1] # "@"
    THEN Failure("missing_marker", header)
    ELSE IF header[Len(header)] # "\n"
    THEN Failure("missing_newline", header)
    ELSE LET colon_index == memrchr(":", header) IN
    IF colon_index = None
    THEN Failure("missing_colon", header)
    ELSE LET after_colon_index == colon_index + 1
             relative_plus_index ==
                 memchr("+", Slice(header, after_colon_index, Len(header)))
         IN
    IF relative_plus_index = None
    THEN Failure("missing_plus", header)
    ELSE LET after_plus_index == after_colon_index + relative_plus_index + 1
             stop_h5_index == Len(header) - 1
             i5 == Slice(header, after_plus_index, stop_h5_index)
         IN [err |-> "ok",
             header |-> Slice(header, 0, after_plus_index)
                        \o reverse_complement_in_place(i5)
                        \o Slice(header, stop_h5_index, Len(header))]

---------------------------------------------------------------------------
\* Harness of rewrite_header_i5: tests::rewrite_header_i5_valid / _invalid.

Idle ==
    /\ input = <<>> /\ rbuf = <<>> /\ total = 0 /\ output = <<>>
    /\ flushed = FALSE /\ k = 0 /\ rl = "idle"
    /\ nread = 0 /\ pass = 1

InitRewrite ==
    /\ \E pal \in Palettes : line \in SeqsUpTo(Delims \cup pal, MaxLen)
    /\ prev = line
    /\ input0 = line
    /\ err = "none"
    /\ calls = 0
    /\ pc = "test"
    /\ Idle

\* let mut header = input.to_vec(); rewrite_header_i5(&mut header)
TestRewrite ==
    /\ pc = "test" /\ calls = 0
    /\ LET r == rewrite_header_i5(line) IN
        /\ line' = r.header
        /\ err' = r.err
    /\ prev' = line
    /\ calls' = 1
    /\ UNCHANGED <<input, rbuf, total, output, flushed, pc, k, rl, input0, nread, pass>>

\* "apply again to recover original input"
TestRewriteAgain ==
    /\ pc = "test" /\ calls = 1 /\ err = "ok"
    /\ LET r == rewrite_header_i5(line) IN
        /\ line' = r.header
        /\ err' = r.err
    /\ prev' = line
    /\ calls' = 2
    /\ UNCHANGED <<input, rbuf, total, output, flushed, pc, k, rl, input0, nread, pass>>

NextRewrite == TestRewrite \/ TestRewriteAgain

SpecRewrite == InitRewrite /\ [][NextRewrite]_vars

---------------------------------------------------------------------------
\* read_line over an io::BufReader.

Min(a, b) == IF a < b THEN a ELSE b

\* BufReader::fill_buf: the buffered bytes when there are some; otherwise
\* one read of the underlying stream, which delivers a chunk of any size
\* from one byte up to the buffer's capacity, or nothing at end of stream.
fill_buf(buf, inp) ==
    IF buf # <<>>
    THEN {[available |-> buf, rest |-> inp]}
    ELSE IF inp = <<>>
    THEN {[available |-> <<>>, rest |-> inp]}
    ELSE {[available |-> SubSeq(inp, 1, n), rest |-> SubSeq(inp, n + 1, Len(inp))] :
            n \in 1..Min(MaxChunk, Len(inp))}

\* Mutant of read_line_iter: on finding the newline the whole chunk is
\* consumed, not only the bytes up to the newline.
read_line_iter_consume_all(buf, inp, ln, tot) ==
    {LET available == f.available IN
     IF available = <<>>
     THEN [rbuf |-> <<>>, input |-> f.rest, line |-> ln, total |-> tot, rl |-> "ret"]
     ELSE LET pos == memchr("\n", available) IN
          IF pos # None
          THEN LET consume == Len(available) IN
               [rbuf |-> Slice(available, consume, Len(available)),
                input |-> f.rest,
                line |-> ln \o Slice(available, 0, pos + 1),
                total |-> tot + (pos + 1),
                rl |-> "ret"]
          ELSE LET consume == Len(available) IN
               [rbuf |-> Slice(available, consume, Len(available)),
                input |-> f.rest,
                line |-> ln \o available,
                total |-> tot + consume,
                rl |-> "loop"]
     : f \in fill_buf(buf, inp)}

\* One iteration of read_line's loop from the given state: the states it
\* can leave, with rl = "ret" when it returns Ok(total).
read_line_iter(buf, inp, ln, tot) ==
    {LET available == f.available IN
     IF available = <<>>
     THEN [rbuf |-> <<>>, input |-> f.rest, line |-> ln, total |-> tot, rl |-> "ret"]
     ELSE LET pos == memchr("\n", available) IN
          IF pos # None
          THEN LET consume == pos + 1 IN
               [rbuf |-> Slice(available, consume, Len(available)),
                input |-> f.rest,
                line |-> ln \o Slice(available, 0, pos + 1),
                total |-> tot + consume,
                rl |-> "ret"]
          ELSE LET consume == Len(available) IN
               [rbuf |-> Slice(available, consume, Len(available)),
                input |-> f.rest,
                line |-> ln \o available,
                total |-> tot + consume,
                rl |-> "loop"]
     : f \in fill_buf(buf, inp)}

\* Entry of read_line: line.clear(); let mut total = 0.
ReadLineEnter ==
    /\ rl' = "loop"
    /\ line' = <<>>
    /\ total' = 0
    /\ prev' = rbuf \o input

\* One iteration of the loop of a read_line call in progress.
ReadLineStep ==
    /\ rl = "loop"
    /\ pc \in {"readtest", "AwaitingHeader", "ReadingPayload"}
    /\ \E nx \in read_line_iter(rbuf, input, line, total) :
        /\ rbuf' = nx.rbuf
        /\ input' = nx.input
        /\ line' = nx.line
        /\ total' = nx.total
        /\ rl' = nx.rl
    /\ UNCHANGED <<output, flushed, pc, k, err, calls, prev, input0, nread, pass>>

---------------------------------------------------------------------------
\* Harness of read_line: it is called on a stream until it returns 0, as
\* main's loop calls it; the line buffer starts with stale contents.

StreamBytes == {"\n", "A", "+"}

InitReadLine ==
    /\ input \in SeqsUpTo(StreamBytes, MaxStream)
    /\ input0 = input
    /\ rbuf = <<>>
    /\ line \in {<<>>, <<"A", "\n">>}
    /\ prev = <<>>
    /\ total = 0 /\ output = <<>> /\ flushed = FALSE /\ k = 0 /\ rl = "idle"
    /\ nread = 0 /\ pass = 1 /\ calls = 0 /\ err = "none"
    /\ pc = "readtest"

TestReadLine ==
    /\ pc = "readtest"
    /\ rl = "idle" \/ (rl = "ret" /\ total # 0)
    /\ ReadLineEnter
    /\ calls' = calls + 1
    /\ UNCHANGED <<input, rbuf, output, flushed, pc, k, err, input0, nread, pass>>

NextReadLine == TestReadLine \/ ReadLineStep

SpecReadLine == InitReadLine /\ [][NextReadLine]_vars

---------------------------------------------------------------------------
\* main: the record streaming driver.

\* Mutant of N_LINES_PER_RECORD: a record of three lines.
N_LINES_PER_RECORD_short == 4 - 1

N_LINES_PER_RECORD == 4

\* The lines inputs are made of: a valid header and a header without '+';
\* and what may follow the last newline of the input: nothing, a header
\* cut before its newline, a line without marker and newline.
InputLines == {<<"@", ":", "+", "A", "c", "\n">>, <<"@", ":", "\n">>}
InputTails == {<<>>, <<"@", ":", "+", "A">>, <<"A">>}

RECURSIVE Concat(_)
Concat(ls) == IF ls = <<>> THEN <<>> ELSE Head(ls) \o Concat(Tail(ls))

Inputs ==
    {Concat(ls) \o t : ls \in SeqsUpTo(InputLines, MaxLines), t \in InputTails}

Init ==
    /\ input \in Inputs
    /\ input0 = input
    /\ rbuf = <<>>
    /\ line = <<>>
    /\ prev = <<>>
    /\ total = 0 /\ output = <<>> /\ flushed = FALSE /\ k = 0 /\ rl = "idle"
    /\ nread = 0 /\ pass = 1 /\ calls = 0 /\ err = "none"
    /\ pc = "AwaitingHeader"

\* read_line(&mut input, &mut line) is called for the header line.
ReadHeader ==
    /\ pc = "AwaitingHeader" /\ rl = "idle"
    /\ ReadLineEnter
    /\ UNCHANGED <<input, rbuf, output, flushed, pc, k, err, calls, input0, nread, pass>>

\* Mutant of Header: the line is written before it is validated.
Header_write_first ==
    /\ pc = "AwaitingHeader" /\ rl = "ret"
    /\ rl' = "idle"
    /\ IF total = 0
       THEN /\ flushed' = TRUE
            /\ pc' = "Done"
            /\ UNCHANGED <<line, output, k, err, nread>>
       ELSE LET r == rewrite_header_i5(line) IN
            /\ line' = r.header
            /\ nread' = nread + 1
            /\ output' = output \o r.header
            /\ IF r.err # "ok"
               THEN /\ pc' = "Failed"
                    /\ err' = r.err
                    /\ UNCHANGED <<k, flushed>>
               ELSE /\ pc' = "ReadingPayload"
                    /\ k' = 1
                    /\ UNCHANGED <<err, flushed>>
    /\ UNCHANGED <<input, rbuf, total, calls, prev, input0, pass>>

\* The header read has returned: on 0 the loop is left, the output is
\* flushed and main returns Ok; otherwise the header is rewritten and
\* written, or main returns the rewriter's error.
Header ==
    /\ pc = "AwaitingHeader" /\ rl = "ret"
    /\ rl' = "idle"
    /\ IF total = 0
       THEN /\ flushed' = TRUE
            /\ pc' = "Done"
            /\ UNCHANGED <<line, output, k, err, nread>>
       ELSE LET r == rewrite_header_i5(line) IN
            /\ line' = r.header
            /\ nread' = nread + 1
            /\ IF r.err # "ok"
               THEN /\ pc' = "Failed"
                    /\ err' = r.err
                    /\ UNCHANGED <<output, k, flushed>>
               ELSE /\ output' = output \o r.header
                    /\ pc' = "ReadingPayload"
                    /\ k' = 1
                    /\ UNCHANGED <<err, flushed>>
    /\ UNCHANGED <<input, rbuf, total, calls, prev, input0, pass>>

\* read_line is called for payload line k of the record.
ReadPayload ==
    /\ pc = "ReadingPayload" /\ rl = "idle"
    /\ ReadLineEnter
    /\ UNCHANGED <<input, rbuf, output, flushed, pc, k, err, calls, input0, nread, pass>>

\* Mutant of Payload: a payload line that is a valid header is rewritten
\* too.
Payload_rewrites ==
    /\ pc = "ReadingPayload" /\ rl = "ret"
    /\ rl' = "idle"
    /\ IF total = 0
       THEN /\ pc' = "Failed"
            /\ err' = "truncated"
            /\ UNCHANGED <<output, k, nread>>
       ELSE /\ output' = output \o rewrite_header_i5(line).header
            /\ nread' = nread + 1
            /\ IF k + 1 < N_LINES_PER_RECORD
               THEN k' = k + 1 /\ pc' = pc
               ELSE k' = 0 /\ pc' = "AwaitingHeader"
            /\ UNCHANGED err
    /\ UNCHANGED <<input, rbuf, line, total, flushed, calls, prev, input0, pass>>

\* Mutant of Payload: end of input inside a record ends the run as at a
\* record boundary.
Payload_eof_done ==
    /\ pc = "ReadingPayload" /\ rl = "ret"
    /\ rl' = "idle"
    /\ IF total = 0
       THEN /\ flushed' = TRUE
            /\ pc' = "Done"
            /\ UNCHANGED <<output, k, nread, err>>
       ELSE /\ output' = output \o line
            /\ nread' = nread + 1
            /\ IF k + 1 < N_LINES_PER_RECORD
               THEN k' = k + 1 /\ pc' = pc
               ELSE k' = 0 /\ pc' = "AwaitingHeader"
            /\ UNCHANGED <<err, flushed>>
    /\ UNCHANGED <<input, rbuf, line, total, calls, prev, input0, pass>>

\* A payload read has returned: on 0 main returns the truncated-record
\* error; otherwise the line is written as read and the for loop goes on.
Payload ==
    /\ pc = "ReadingPayload" /\ rl = "ret"
    /\ rl' = "idle"
    /\ IF total = 0
       THEN /\ pc' = "Failed"
            /\ err' = "truncated"
            /\ UNCHANGED <<output, k, nread>>
       ELSE /\ output' = output \o line
            /\ nread' = nread + 1
            /\ IF k + 1 < N_LINES_PER_RECORD
               THEN k' = k + 1 /\ pc' = pc
               ELSE k' = 0 /\ pc' = "AwaitingHeader"
            /\ UNCHANGED err
    /\ UNCHANGED <<input, rbuf, line, total, flushed, calls, prev, input0, pass>>

\* tests/cli.rs, valid: "piping the output in again should recover the
\* original input": a second run of the program on the first run's output.
Repipe ==
    /\ pc = "Done" /\ pass = 1
    /\ pass' = 2
    /\ input' = output
    /\ rbuf' = <<>> /\ line' = <<>> /\ prev' = <<>> /\ total' = 0
    /\ output' = <<>> /\ flushed' = FALSE /\ k' = 0 /\ rl' = "idle"
    /\ nread' = 0 /\ err' = "none"
    /\ pc' = "AwaitingHeader"
    /\ UNCHANGED <<calls, input0>>

Main == ReadHeader \/ ReadLineStep \/ Header \/ ReadPayload \/ Payload

Next == Main \/ Repipe

Spec == Init /\ [][Next]_vars

---------------------------------------------------------------------------
\* main with stream operations that can fail (the ? on fill_buf, write_all
\* and flush).

\* reader.fill_buf()? returns an error: read_line and main return it.
FillBufError ==
    /\ rl = "loop"
    /\ pc \in {"AwaitingHeader", "ReadingPayload"}
    /\ pc' = "Failed"
    /\ err' = "io"
    /\ rl' = "idle"
    /\ UNCHANGED <<input, rbuf, line, total, output, flushed, k, calls, prev,
                   input0, nread, pass>>

\* output.write_all(&line)? returns an error after the writer has taken
\* some of the line's bytes, but not all.
WriteHeaderError ==
    /\ pc = "AwaitingHeader" /\ rl = "ret" /\ total # 0
    /\ LET r == rewrite_header_i5(line) IN
        /\ r.err = "ok"
        /\ line' = r.header
        /\ \E n \in 0..(Len(r.header) - 1) : output' = output \o SubSeq(r.header, 1, n)
    /\ nread' = nread + 1
    /\ pc' = "Failed"
    /\ err' = "io"
    /\ rl' = "idle"
    /\ UNCHANGED <<input, rbuf, total, flushed, k, calls, prev, input0, pass>>

WritePayloadError ==
    /\ pc = "ReadingPayload" /\ rl = "ret" /\ total # 0
    /\ \E n \in 0..(Len(line) - 1) : output' = output \o SubSeq(line, 1, n)
    /\ nread' = nread + 1
    /\ pc' = "Failed"
    /\ err' = "io"
    /\ rl' = "idle"
    /\ UNCHANGED <<input, rbuf, line, total, flushed, k, calls, prev, input0, pass>>

\* output.flush()? returns an error.
FlushError ==
    /\ pc = "AwaitingHeader" /\ rl = "ret" /\ total = 0
    /\ pc' = "Failed"
    /\ err' = "io"
    /\ rl' = "idle"
    /\ UNCHANGED <<input, rbuf, line, total, output, flushed, k, calls, prev,
                   input0, nread, pass>>

NextIO ==
    Main \/ FillBufError \/ WriteHeaderError \/ WritePayloadError \/ FlushError

SpecIO == Init /\ [][NextIO]_vars

\* Nothing but the stream operations suspends main: a step that can be
\* taken is taken.
LiveSpecIO == SpecIO /\ WF_vars(NextIO)

---------------------------------------------------------------------------
\* Properties of rewrite_header_i5, stated without the model's operators.

\* The complement mapping as the specification words it.
ComplementPairs ==
    {<<"A", "T">>, <<"T", "A">>, <<"C", "G">>, <<"G", "C">>, <<"N", "N">>,
     <<"a", "t">>, <<"t", "a">>, <<"c", "g">>, <<"g", "c">>, <<"n", "n">>}

ComplementOf(b) ==
    IF \E pr \in ComplementPairs : pr[1] = b
    THEN (CHOOSE pr \in ComplementPairs : pr[1] = b)[2]
    ELSE b

\* 1-based positions of the last ':' and of the first '+' after position c.
HasColon(s) == \E i \in 1..Len(s) : s[i] = ":"
LastColon(s) ==
    CHOOSE c \in 1..Len(s) : s[c] = ":" /\ \A j \in (c + 1)..Len(s) : s[j] # ":"
HasPlusAfter(s, c) == \E i \in (c + 1)..Len(s) : s[i] = "+"
FirstPlusAfter(s, c) ==
    CHOOSE p \in (c + 1)..Len(s) : s[p] = "+" /\ \A j \in (c + 1)..(p - 1) : s[j] # "+"

\* The field F of a valid header lies strictly between FieldPlus(s) and Len(s).
FieldPlus(s) == FirstPlusAfter(s, LastColon(s))
FieldLen(s) == Len(s) - 1 - FieldPlus(s)

Rewritten == pc = "test" /\ calls >= 1 /\ err = "ok"

\* C1: after a successful rewrite the buffer has the same length, every
\* byte outside the field (between the first '+' after the last ':' and
\* the final newline) is unchanged, and byte k of the field is the
\* complement of the input byte at the mirrored position L-1-k.
C1_FieldReverseComplemented ==
    Rewritten =>
        /\ HasColon(prev)
        /\ HasPlusAfter(prev, LastColon(prev))
        /\ LET n == Len(prev)
               p == FieldPlus(prev)
           IN
           /\ Len(line) = n
           /\ \A i \in 1..n :
                  line[i] = IF p < i /\ i < n
                            THEN ComplementOf(prev[p + n - i])
                            ELSE prev[i]

\* A field of two different DNA bytes was reversed and complemented.
C1_Witness ==
    /\ Rewritten /\ calls = 1
    /\ FieldLen(prev) = 2
    /\ LET n == Len(prev) IN
        /\ ComplementOf(prev[n - 2]) # prev[n - 2]
        /\ ComplementOf(prev[n - 1]) # prev[n - 1]
        /\ prev[n - 2] # prev[n - 1]
        /\ ComplementOf(prev[n - 2]) # prev[n - 1]
        /\ line # prev

\* A '+' before the last ':' is not the delimiter: the odd-length field
\* after the later '+' is complemented in place.
C1_WitnessPlusBeforeColon ==
    /\ Rewritten /\ calls = 1
    /\ \E i \in 1..(LastColon(prev) - 1) : prev[i] = "+"
    /\ FieldLen(prev) = 1
    /\ line # prev

\* C2: rewrite_header_i5 is an involution on valid headers: the second
\* call succeeds, locates the same field and restores the original buffer.
C2_Involution ==
    (pc = "test" /\ calls = 2) =>
        /\ err = "ok"
        /\ FieldPlus(prev) = FieldPlus(input0)
        /\ line = input0

\* Second call made on a header whose field holds a '+' and a DNA byte.
C2_Witness ==
    /\ pc = "test" /\ calls = 2
    /\ FieldLen(input0) = 2
    /\ \E i \in (FieldPlus(input0) + 1)..(Len(input0) - 1) : input0[i] = "+"
    /\ \E i \in (FieldPlus(input0) + 1)..(Len(input0) - 1) :
            ComplementOf(input0[i]) # input0[i]
    /\ prev # input0

\* The outcome the ordered rules give a buffer.
Classify(s) ==
    IF s = <<>> \/ s[1] # "@" THEN "missing_marker"
    ELSE IF s[Len(s)] # "\n" THEN "missing_newline"
    ELSE IF ~HasColon(s) THEN "missing_colon"
    ELSE IF ~HasPlusAfter(s, LastColon(s)) THEN "missing_plus"
    ELSE "ok"

\* The headers of tests::rewrite_header_i5_invalid.
ExampleEmptyHeader == <<"@", "\n">>
ExampleNoColon ==
    <<"@", "r", "6", " ", "n", "o", "_", "i", "n", "d", "e", "x", "_",
      "h", "e", "r", "e", "\n">>
ExampleNoPlus ==
    <<"@", "r", "5", " ", "1", ":", "N", ":", "0", ":", "A", "A", "A", "A", "\n">>
ExampleNoNewline ==
    <<"@", "r", "7", " ", "1", ":", "N", ":", "0", ":", "C", "C", "C", "C",
      "+", "A", "G", "T", "C">>

\* C3: every buffer gets exactly the outcome of the first violated rule,
\* in the order marker, terminator, ':', '+' after the last ':'.
C3_Classification ==
    /\ (pc = "test" /\ calls >= 1) => err = Classify(prev)
    /\ rewrite_header_i5(ExampleEmptyHeader).err = "missing_colon"
    /\ rewrite_header_i5(ExampleNoColon).err = "missing_colon"
    /\ rewrite_header_i5(ExampleNoPlus).err = "missing_plus"
    /\ rewrite_header_i5(ExampleNoNewline).err = "missing_newline"
    /\ rewrite_header_i5(SubSeq(ExampleNoColon, 1, 5)).err = "missing_newline"

\* A header without newline that also lacks ':' was classified.
C3_Witness ==
    /\ pc = "test" /\ calls = 1
    /\ Len(prev) >= 2 /\ prev[1] = "@" /\ prev[Len(prev)] # "\n"
    /\ ~HasColon(prev)
    /\ err = "missing_newline"

RewriteErrors ==
    {"missing_marker", "missing_newline", "missing_colon", "missing_plus"}

\* C4: when rewrite_header_i5 returns an error the buffer is unchanged.
C4_NoMutationOnError ==
    (pc = "test" /\ calls >= 1 /\ err \in RewriteErrors) => line = prev

\* The '+' is missing after a ':' that is followed by DNA bytes.
C4_Witness ==
    /\ pc = "test" /\ calls = 1 /\ err = "missing_plus"
    /\ LastColon(prev) + 2 < Len(prev)
    /\ \A i \in (LastColon(prev) + 1)..(Len(prev) - 1) :
            ComplementOf(prev[i]) # prev[i]

---------------------------------------------------------------------------
\* Properties of read_line.

HasNewline(s) == \E i \in 1..Len(s) : s[i] = "\n"
FirstNewline(s) ==
    CHOOSE i \in 1..Len(s) : s[i] = "\n" /\ \A j \in 1..(i - 1) : s[j] # "\n"

\* The bytes of s up to and including its first newline, or all of s.
FirstLine(s) == IF HasNewline(s) THEN SubSeq(s, 1, FirstNewline(s)) ELSE s
AfterFirstLine(s) == SubSeq(s, Len(FirstLine(s)) + 1, Len(s))

\* C9: however the stream is cut into chunks, a read_line call that found
\* the stream S leaves in the buffer exactly the first line of S (through
\* its newline, or all of S when it has none) whatever the buffer held
\* before, leaves the rest of S unread, and returns the buffer's length,
\* which is 0 exactly when S is empty.
C9_ReadLineChunkIndependent ==
    (pc = "readtest" /\ rl = "ret") =>
        /\ line = FirstLine(prev)
        /\ rbuf \o input = AfterFirstLine(prev)
        /\ total = Len(line)
        /\ (total = 0) <=> (prev = <<>>)

\* The second call, made with the first line still in the buffer, has
\* returned a line that needed more than one chunk, from a chunk that also
\* held the whole next line.
C9_Witness ==
    /\ pc = "readtest" /\ rl = "ret" /\ calls = 2
    /\ Len(line) > MaxChunk
    /\ line[Len(line)] = "\n"
    /\ HasNewline(rbuf)

---------------------------------------------------------------------------
\* Properties of main.

\* The lines of a stream: each through its newline, the last one possibly
\* without.
RECURSIVE SplitLines(_)
SplitLines(s) ==
    IF s = <<>> THEN <<>>
    ELSE <<FirstLine(s)>> \o SplitLines(AfterFirstLine(s))

IsPrefix(a, b) == Len(a) <= Len(b) /\ a = SubSeq(b, 1, Len(a))

\* What a valid header is to become, by the field rule of C1.
ExpectedHeader(h) ==
    LET n == Len(h)
        p == FieldPlus(h)
    IN [i \in 1..n |-> IF p < i /\ i < n THEN ComplementOf(h[p + n - i]) ELSE h[i]]

IsHeaderPosition(i) == i % 4 = 1

ExpectedLine(ls, i) ==
    IF IsHeaderPosition(i) THEN ExpectedHeader(ls[i]) ELSE ls[i]

\* The transformed lines 1..m of ls, concatenated.
RECURSIVE ExpectedUpTo(_, _)
ExpectedUpTo(ls, m) ==
    IF m = 0 THEN <<>> ELSE ExpectedUpTo(ls, m - 1) \o ExpectedLine(ls, m)

\* The lines before the first header line that is not valid (all of them
\* when every header is valid).
ValidLines(ls) ==
    IF \E i \in 1..Len(ls) : IsHeaderPosition(i) /\ Classify(ls[i]) # "ok"
    THEN (CHOOSE i \in 1..Len(ls) :
            /\ IsHeaderPosition(i) /\ Classify(ls[i]) # "ok"
            /\ \A j \in 1..(i - 1) : ~(IsHeaderPosition(j) /\ Classify(ls[j]) # "ok")) - 1
    ELSE Len(ls)

Terminal == pc \in {"Done", "Failed"}

\* C5: when the run ends in Done the output is flushed and holds the
\* input's lines in order, each header line (1, 5, 9, ...) replaced by its
\* rewrite and every other line as read; the output has the input's length
\* and number of lines.
C5_DoneOutput ==
    (pc = "Done" /\ pass = 1) =>
        LET ls == SplitLines(input0)
            ol == SplitLines(output)
        IN /\ flushed
           /\ Len(ol) = Len(ls)
           /\ \A i \in 1..Len(ls) :
                /\ IsHeaderPosition(i) => Classify(ls[i]) = "ok"
                /\ ol[i] = ExpectedLine(ls, i)
           /\ Len(output) = Len(input0)

\* Two records were written, the last line without its newline.
C5_Witness ==
    /\ pc = "Done" /\ pass = 1
    /\ nread = 8
    /\ input0[Len(input0)] # "\n"
    /\ output # input0

ZeroReadAtHeader == pc = "AwaitingHeader" /\ rl = "ret" /\ total = 0
ZeroReadAtPayload == pc = "ReadingPayload" /\ rl = "ret" /\ total = 0

C6_Outcome ==
    /\ (rl = "ret" /\ total = 0) => (rbuf = <<>> /\ input = <<>>)
    /\ pc = "Done" => nread % 4 = 0
    /\ (pc = "Failed" /\ err = "truncated") => (nread % 4 \in 1..3 /\ k = nread % 4)
    /\ (Terminal /\ err \notin RewriteErrors) =>
            /\ pc = "Done" <=> nread % 4 = 0
            /\ pc = "Failed" <=> err = "truncated"
            /\ pass = 1 => nread = Len(SplitLines(input0))
    /\ (Terminal /\ pass = 1 /\ input0 = <<>>) => pc = "Done"

\* C6: a zero-byte read while a header is awaited ends the run in Done, at
\* one of the three payload reads it ends the run in Failed with the
\* truncated-record error; so a run whose headers all validate ends in Done
\* exactly when the number of lines read is a multiple of 4.
C6_EofAtRecordBoundary ==
    /\ []C6_Outcome
    /\ [][ZeroReadAtHeader => pc' = "Done"]_vars
    /\ [][ZeroReadAtPayload => (pc' = "Failed" /\ err' = "truncated")]_vars

\* The input ended after two lines of the second record.
C6_Witness ==
    /\ pc = "Failed" /\ err = "truncated"
    /\ nread = 6 /\ k = 2

C7_Output ==
    LET ls == SplitLines(input0)
        m == ValidLines(ls)
    IN /\ IsPrefix(output, ExpectedUpTo(ls, m))
       /\ (pc = "Failed" /\ err \in RewriteErrors) =>
            /\ nread = m + 1
            /\ IsHeaderPosition(nread)
            /\ line = ls[nread]
            /\ output = ExpectedUpTo(ls, nread - 1)

\* C7: the bytes written are at all times a prefix of the correctly
\* transformed input; when the header of record n fails to rewrite, the
\* output holds exactly the n-1 records before it, transformed, and none
\* of the failing line; nothing is written once the run has Failed.
C7_NoPartialOutput ==
    /\ []C7_Output
    /\ [][pc = "Failed" => output' = output]_vars

\* The header of the second record failed after a first record was written.
C7_Witness ==
    /\ pc = "Failed" /\ err = "missing_plus"
    /\ nread = 5
    /\ output # <<>>

\* C8: the run on the output of a run that ended in Done ends in Done too,
\* after as many lines, with the first run's input as its output.
C8_StreamInvolution ==
    pass = 2 =>
        /\ pc # "Failed"
        /\ pc = "Done" =>
            /\ flushed
            /\ output = input0
            /\ nread = Len(SplitLines(input0))

\* The second run has ended on an input of two records.
C8_Witness ==
    /\ pass = 2 /\ pc = "Done"
    /\ nread = 8
    /\ output = input0

PayloadIndex == IF pc = "ReadingPayload" THEN k ELSE 0

C10_Step ==
    \/ pc' = pc /\ PayloadIndex' = PayloadIndex
    \/ pc = "AwaitingHeader" /\ pc' = "ReadingPayload" /\ k' = 1
    \/ pc = "ReadingPayload" /\ pc' = "ReadingPayload" /\ k < 3 /\ k' = k + 1
    \/ pc = "ReadingPayload" /\ k = 3 /\ pc' = "AwaitingHeader"
    \/ /\ pc' = "Done"
       /\ ZeroReadAtHeader
       /\ flushed'
    \/ /\ pc' = "Failed"
       /\ \/ /\ pc = "AwaitingHeader" /\ rl = "ret" /\ total # 0
             /\ err' \in RewriteErrors
             /\ err' = rewrite_header_i5(line).err
          \/ ZeroReadAtPayload /\ err' = "truncated"
          \/ pc \in {"AwaitingHeader", "ReadingPayload"} /\ err' = "io"

C10_States ==
    /\ pc \in {"AwaitingHeader", "ReadingPayload", "Done", "Failed"}
    /\ pc = "ReadingPayload" => k \in 1..3
    /\ pc = "Done" => flushed
    /\ pc = "Failed" <=> err \in RewriteErrors \cup {"truncated", "io"}

\* C10: main moves AwaitingHeader -> ReadingPayload(1) -> (2) -> (3) ->
\* AwaitingHeader; Done is entered only from AwaitingHeader on a zero-byte
\* read, flushed; Failed only by a header error, a zero-byte payload read
\* or a stream error; every run reaches Done or Failed and stops there.
C10_StateMachine ==
    /\ []C10_States
    /\ [][C10_Step]_vars
    /\ [][~Terminal]_vars
    /\ <>Terminal

\* A stream error ended the run while payload line 2 was being read.
C10_Witness ==
    /\ pc = "Failed" /\ err = "io"
    /\ k = 2 /\ nread = 6

====
